---- MODULE Spec2Model ----
(***************************************************************************)
(* A model of the StackStorm packagecloud pack:                            *)
(*   actions/lib/packagecloud.py  api_call and the token and package       *)
(*                                operations built on it                   *)
(*   actions/list_packages.py     format_semver, meta_version_to_integer   *)
(*                                and ListPackagesAction.run               *)
(* Text is modelled as a sequence of one-character strings, so that        *)
(* searching, slicing and parsing are computed as the code computes them.  *)
(***************************************************************************)
EXTENDS Integers, Sequences, FiniteSets, TLC

VARIABLES
    op,        \* the operation that was invoked
    args,      \* its arguments
    pc,        \* the position of the operation's control flow
    server,    \* the remote API: its data and how it answers
    faults,    \* failed requests the environment may still produce
    call,      \* api_call: the request being made and where it returns to
    attempt,   \* api_call: attempt
    resp,      \* api_call / requests.get: the response last received
    outcomes,  \* outcomes of the attempts of the request in progress
    page,      \* run: page;  get_all_packages: offset
    metadata,  \* run: metadata;  get_all_packages: packages
    total,     \* get_all_packages: total
    fetched,   \* get_all_packages: fetched
    tokens,    \* token operations: the listing being scanned
    idx,       \* token operations: position of the scan in the listing
    wire,      \* what was sent: page requests and DELETE requests
    result     \* what the operation returned, or how it failed

vars == <<op, args, pc, server, faults, call, attempt, resp, outcomes, page,
          metadata, total, fetched, tokens, idx, wire, result>>

(***************************************************************************)
(* Text                                                                    *)
(***************************************************************************)
Digits == <<"0", "1", "2", "3", "4", "5", "6", "7", "8", "9">>

DigitChars == {Digits[i] : i \in 1..10}

Letters == {"a", "b", "c", "d", "e", "f", "g", "h", "i", "j", "k", "l", "m",
            "n", "o", "p", "q", "r", "s", "t", "u", "v", "w", "x", "y", "z"}

DEV == <<"d", "e", "v">>

\* Python's None, kept apart from every text.
None == <<"<None>">>

\* Python truthiness of an optional text: None and "" are false.
Truthy(x) == x # None /\ x # <<>>

\* s[a:b] of Python for 0 <= a <= b <= len(s), in 1-based positions a+1..b.
Slice(s, a, b) == SubSeq(s, a + 1, b)

\* The positions (1-based) at which sub occurs in s.
Occurrences(s, sub) ==
    {p \in 1..(Len(s) - Len(sub) + 1) :
        \A j \in 1..Len(sub) : s[p + j - 1] = sub[j]}

\* sub in s
Contains(s, sub) == Occurrences(s, sub) # {}

\* s.index(sub), as a 0-based offset like Python's; only used when sub in s.
Index(s, sub) ==
    (CHOOSE p \in Occurrences(s, sub) : \A q \in Occurrences(s, sub) : p <= q) - 1

\* s[i] of Python for -len(s) <= i < len(s): a negative i counts from the end.
PyAt(s, i) == IF i < 0 THEN s[Len(s) + i + 1] ELSE s[i + 1]

\* s.startswith(prefix)
StartsWith(s, prefix) ==
    /\ Len(prefix) <= Len(s)
    /\ \A j \in 1..Len(prefix) : s[j] = prefix[j]

(***************************************************************************)
(* list_packages.py: format_semver                                         *)
(***************************************************************************)
FormatSemverSuffixDot == <<"0", "-", "b", "e", "t", "a">>

FormatSemverSuffixNoDot == <<".", "0", "-", "b", "e", "t", "a">>

\* Lines 52-55: the suffix chosen by the character before "dev"; at
\* offset 0 the index -1 reads the last character of the version.
DevSuffix(version) ==
    IF PyAt(version, Index(version, DEV) - 1) = "."
    THEN FormatSemverSuffixDot
    ELSE FormatSemverSuffixNoDot

format_semver(version, release) ==
    LET v == IF Contains(version, DEV)
             THEN Slice(version, 0, Index(version, DEV)) \o DevSuffix(version)
             ELSE version
    IN  v \o <<"+">> \o release

(***************************************************************************)
(* semver.Version.parse and int(), as far as the pack relies on them       *)
(***************************************************************************)
AllIn(s, chars) == \A i \in 1..Len(s) : s[i] \in chars

\* Position of the first c in s, 0 when there is none.
FirstPos(s, c) ==
    IF \E i \in 1..Len(s) : s[i] = c
    THEN CHOOSE i \in 1..Len(s) : s[i] = c /\ \A j \in 1..(i - 1) : s[j] # c
    ELSE 0

RECURSIVE SplitDots(_)
SplitDots(s) ==
    LET p == FirstPos(s, ".")
    IN  IF p = 0 THEN <<s>>
        ELSE <<Slice(s, 0, p - 1)>> \o SplitDots(Slice(s, p, Len(s)))

\* 0|[1-9]\d*
NumericIdentifier(s) ==
    /\ Len(s) >= 1
    /\ AllIn(s, DigitChars)
    /\ Len(s) > 1 => s[1] # "0"

IdentifierChars == DigitChars \cup Letters \cup {"-"}

\* 0|[1-9]\d*|\d*[a-zA-Z-][0-9a-zA-Z-]*
PrereleaseIdentifier(s) ==
    /\ Len(s) >= 1
    /\ AllIn(s, IdentifierChars)
    /\ AllIn(s, DigitChars) => NumericIdentifier(s)

\* [0-9a-zA-Z-]+
BuildIdentifier(s) == Len(s) >= 1 /\ AllIn(s, IdentifierChars)

DigitValue(c) == (CHOOSE i \in 1..10 : Digits[i] = c) - 1

RECURSIVE DecimalValue(_)
DecimalValue(s) ==
    IF Len(s) = 0 THEN 0
    ELSE 10 * DecimalValue(Slice(s, 0, Len(s) - 1)) + DigitValue(s[Len(s)])

\* int(text): decimal digits with an optional sign; anything else raises.
IntOk(s) ==
    LET body == IF Len(s) >= 1 /\ s[1] = "-" THEN Slice(s, 1, Len(s)) ELSE s
    IN  Len(body) >= 1 /\ AllIn(body, DigitChars)

IntValue(s) ==
    IF s[1] = "-" THEN 0 - DecimalValue(Slice(s, 1, Len(s))) ELSE DecimalValue(s)

\* The parts of a version text as semver's regular expression cuts them:
\* core up to the first "-" or "+", prerelease up to the first "+", build.
SemverCut(s) ==
    LET plus == FirstPos(s, "+")
        head == IF plus = 0 THEN s ELSE Slice(s, 0, plus - 1)
        dash == FirstPos(head, "-")
    IN  [core       |-> IF dash = 0 THEN head ELSE Slice(head, 0, dash - 1),
         hasPre     |-> dash # 0,
         prerelease |-> IF dash = 0 THEN <<>> ELSE Slice(head, dash, Len(head)),
         hasBuild   |-> plus # 0,
         build      |-> IF plus = 0 THEN <<>> ELSE Slice(s, plus, Len(s))]

\* Whether semver.Version.parse accepts the text.
SemverValid(s) ==
    LET c == SemverCut(s)
        core == SplitDots(c.core)
    IN  /\ Len(core) = 3
        /\ \A i \in 1..3 : NumericIdentifier(core[i])
        /\ c.hasPre =>
              \A i \in 1..Len(SplitDots(c.prerelease)) :
                  PrereleaseIdentifier(SplitDots(c.prerelease)[i])
        /\ c.hasBuild =>
              \A i \in 1..Len(SplitDots(c.build)) :
                  BuildIdentifier(SplitDots(c.build)[i])

\* semver.Version.parse of an accepted text.
SemverParse(s) ==
    LET c == SemverCut(s)
        core == SplitDots(c.core)
    IN  [major      |-> DecimalValue(core[1]),
         minor      |-> DecimalValue(core[2]),
         patch      |-> DecimalValue(core[3]),
         prerelease |-> IF c.hasPre THEN c.prerelease ELSE None,
         build      |-> IF c.hasBuild THEN c.build ELSE None]

(***************************************************************************)
(* list_packages.py: meta_version_to_integer                               *)
(* Python integers are unbounded; the key is kept here as three limbs      *)
(* <<hi, mid, lo>> standing for hi * 2^32 + mid * 2^16 + lo with           *)
(* 0 <= mid, lo < 2^16, so that sums carry exactly as Python's do.         *)
(***************************************************************************)
Limb == 65536

\* The sum of line 72 with patch shifted by 8 instead of 16.
PackKeyPatchShift8(major, minor, patch, build) ==
    LET low == patch * 256 + build
        mid == minor * 256 + (low \div Limb)
    IN  <<major + (mid \div Limb), mid % Limb, low % Limb>>

\* (major << 32) + (minor << 24) + (patch << 16) + build
PackKey(major, minor, patch, build) ==
    LET mid == minor * 256 + patch + (build \div Limb)
    IN  <<major + (mid \div Limb), mid % Limb, build % Limb>>

\* Whether meta_version_to_integer returns (it raises ValueError or TypeError
\* when the text is no semantic version or the build is no integer).
MetaVersionDefined(version, release) ==
    LET s == format_semver(version, release)
    IN  /\ SemverValid(s)
        /\ SemverParse(s).build # None
        /\ IntOk(SemverParse(s).build)

meta_version_to_integer(version, release) ==
    LET v == SemverParse(format_semver(version, release))
    IN  PackKey(v.major, v.minor, v.patch, IntValue(v.build))

\* Comparison of two keys as integers.
KeyLess(a, b) ==
    \/ a[1] < b[1]
    \/ a[1] = b[1] /\ a[2] < b[2]
    \/ a[1] = b[1] /\ a[2] = b[2] /\ a[3] < b[3]

KeyLeq(a, b) == a = b \/ KeyLess(a, b)

(***************************************************************************)
(* Bounds of the model                                                     *)
(***************************************************************************)
\* Pieces a version text of the pure-function checks is put together from.
MaxPieces == 3

\* Failed requests the environment may produce during one operation.
MaxFaults == 3

\* Records held by a small package server, and its largest page size.
MaxRecords == 3

MaxPerPage == 2

\* Pages after which the exploration of get_all_packages is cut off.
MaxOffset == 102

\* Records of a repository whose listing is filtered and sorted.
MaxPkgs == 3

\* Tokens in a listing of master tokens or of read tokens.
MaxTokens == 3

(***************************************************************************)
(* States every operation starts from and ends in                          *)
(***************************************************************************)
\* A URL of the API: the resource and the numbers in its path or query.
Url(resource, a, b) == [resource |-> resource, a |-> a, b |-> b]

NoCall == [method |-> "none", url |-> Url("none", 0, 0), ret |-> "none"]

NoHeaders == [Total |-> None, PerPage |-> None]

\* A response that arrived, and a request that raised instead.
Response(status, json, body, headers) ==
    [kind |-> "response", status |-> status, json |-> json, body |-> body,
     headers |-> headers]

Failure(kind) ==
    [kind |-> kind, status |-> 0, json |-> FALSE, body |-> <<>>,
     headers |-> NoHeaders]

NoResp == Failure("none")

NoResult == [kind |-> "none"]

NoServer == [mode |-> "none"]

NoWire == [lastPage |-> 0, requests |-> 0, failures |-> 0, deletes |-> <<>>]

Returned(v) == [kind |-> "returned", value |-> v]

\* An exception that leaves the operation: the action fails.
Raised(e) == [kind |-> "raised", error |-> e]

\* abort(): the message goes to stderr and sys.exit(errcode) ends the process.
Abort(errcode) == [kind |-> "aborted", exit |-> errcode]

Invoke(operation, arguments, srv, budget) ==
    /\ op = operation
    /\ args = arguments
    /\ pc = "start"
    /\ server = srv
    /\ faults = budget
    /\ call = NoCall
    /\ attempt = 0
    /\ resp = NoResp
    /\ outcomes = <<>>
    /\ page = 0
    /\ metadata = <<>>
    /\ total = 0
    /\ fetched = 0
    /\ tokens = <<>>
    /\ idx = 0
    /\ wire = NoWire
    /\ result = NoResult

Finish(r) == pc' = "done" /\ result' = r

(***************************************************************************)
(* The pure functions of list_packages.py, applied to bounded inputs       *)
(***************************************************************************)
RECURSIVE ToDecimal(_)
\* The decimal text of a natural number.
ToDecimal(n) ==
    IF n < 10 THEN <<Digits[n + 1]>>
    ELSE ToDecimal(n \div 10) \o <<Digits[(n % 10) + 1]>>

VersionPieces ==
    { <<>>, <<"1">>, <<"0">>, <<".">>, DEV, <<"-", "8">>, <<"3", ".", "9">>,
      <<"1", ".", "2", ".", "3">> }

RECURSIVE Joined(_)
\* The texts made of n pieces.
Joined(n) ==
    IF n = 0 THEN {<<>>}
    ELSE {a \o b : a \in Joined(n - 1), b \in VersionPieces}

PieceVersions == Joined(MaxPieces)

PieceReleases == { <<"5">>, <<"8">>, <<"1", "0">>, <<>> }

\* Components at and around the edges of the key's fields.
FieldSamples == {0, 1, 2, 255, 256}

ReleaseSamples == {0, 1, 10, 65535, 65536}

DottedVersion(major, minor, patch) ==
    ToDecimal(major) \o <<".">> \o ToDecimal(minor) \o <<".">> \o ToDecimal(patch)

SemverInputs ==
    {[version |-> v, release |-> r] : v \in PieceVersions, r \in PieceReleases}
    \cup
    {[version |-> DottedVersion(a, b, c), release |-> ToDecimal(r)] :
        a \in FieldSamples, b \in FieldSamples, c \in FieldSamples,
        r \in ReleaseSamples}

InitSemver ==
    \E o \in {"format_semver", "meta_version_to_integer"}, a \in SemverInputs :
        Invoke(o, a, NoServer, 0)

FormatSemver ==
    /\ pc = "start"
    /\ op = "format_semver"
    /\ Finish(Returned(format_semver(args.version, args.release)))
    /\ UNCHANGED <<op, args, server, faults, call, attempt, resp, outcomes,
                   page, metadata, total, fetched, tokens, idx, wire>>

MetaVersionToInteger ==
    /\ pc = "start"
    /\ op = "meta_version_to_integer"
    /\ IF MetaVersionDefined(args.version, args.release)
       THEN Finish(Returned(meta_version_to_integer(args.version, args.release)))
       ELSE Finish(Raised("ValueError"))
    /\ UNCHANGED <<op, args, server, faults, call, attempt, resp, outcomes,
                   page, metadata, total, fetched, tokens, idx, wire>>

NextSemver == FormatSemver \/ MetaVersionToInteger

SpecSemver == InitSemver /\ [][NextSemver]_vars

(***************************************************************************)
(* The package server                                                      *)
(* mode "consistent": every page carries Total = the number of records and *)
(* Per-Page = the page size.  mode "malformed": the two headers of each    *)
(* response are arbitrary: missing, not a number, zero, or any small count. *)
(***************************************************************************)
Min(a, b) == IF a <= b THEN a ELSE b

\* Record k of a generated repository; the release tells the records apart.
PkgRecord(k) ==
    [name |-> <<"p">>, distro_version |-> <<"x">>,
     version |-> <<"1", ".", "0", ".", "0">>, release |-> ToDecimal(k)]

PkgRecords(n) == [k \in 1..n |-> PkgRecord(k)]

PackageServer(mode, pkgs, perPage) ==
    [mode |-> mode, pkgs |-> pkgs, perPage |-> perPage, masters |-> <<>>,
     reads |-> <<>>]

\* The records of page p.
PageBody(p) ==
    SubSeq(server.pkgs, (p - 1) * server.perPage + 1,
           Min(p * server.perPage, Len(server.pkgs)))

NotANumber == <<"x">>

MalformedTotals == {None, NotANumber} \cup {ToDecimal(n) : n \in {0, 1, MaxRecords}}

MalformedPerPages == {None, NotANumber} \cup {ToDecimal(n) : n \in {0, 1}}

\* The answers the server can give to a request for page p.
GoodPages(p) ==
    IF server.mode = "consistent"
    THEN {Response(200, TRUE, PageBody(p),
                   [Total |-> ToDecimal(Len(server.pkgs)),
                    PerPage |-> ToDecimal(server.perPage)])}
    ELSE {Response(200, TRUE, PageBody(p), [Total |-> t, PerPage |-> q]) :
              t \in MalformedTotals, q \in MalformedPerPages}

\* What a failing request can produce: an HTTP error status, the exceptions
\* of requests, and a body that is not JSON.
FaultOutcomes ==
    {Response(500, FALSE, <<>>, NoHeaders), Response(200, FALSE, <<>>, NoHeaders),
     Failure("ConnectionError"), Failure("Timeout"), Failure("RequestException")}

IsFault(o) == o \in FaultOutcomes

Faulty == IF faults > 0 THEN FaultOutcomes ELSE {}

\* The wire after one more request for page p with outcome o.
PageSent(p, o) ==
    [wire EXCEPT !.lastPage = p, !.requests = @ + 1,
                 !.failures = IF IsFault(o) THEN @ + 1 ELSE @]

Spend(o) == IF IsFault(o) THEN faults - 1 ELSE faults

(***************************************************************************)
(* packagecloud.py: api_call                                               *)
(***************************************************************************)
maxattempts == 3

\* raise_for_status() raises HTTPError for the 4xx and 5xx statuses; the
\* first except clause catches it with ConnectionError and Timeout.
IsTransient(o) ==
    \/ o.kind \in {"ConnectionError", "Timeout"}
    \/ o.kind = "response" /\ o.status >= 400

IsSuccess(o) == o.kind = "response" /\ o.status < 400

\* Line 60 with > for >=.
AttemptsExhaustedOffByOne(n) == n > maxattempts

AttemptsExhausted(n) == n >= maxattempts

\* Lines 44-47: the caller enters api_call.
EnterApiCall(method, url, ret) ==
    /\ call' = [method |-> method, url |-> url, ret |-> ret]
    /\ attempt' = 0
    /\ resp' = NoResp
    /\ outcomes' = <<>>
    /\ pc' = "api_call"
    /\ wire' = IF method = "delete"
               THEN [wire EXCEPT !.deletes = Append(@, url)]
               ELSE wire

\* The answers to the request of the call in progress.
CallOutcomes ==
    Faulty \cup
    (CASE call.url.resource = "packages" -> GoodPages(call.url.a)
       [] call.url.resource = "master_tokens" ->
             {Response(200, TRUE, server.masters, NoHeaders)}
       [] call.url.resource = "read_tokens" ->
             {Response(200, TRUE, server.reads, NoHeaders)}
       [] OTHER -> {Response(204, FALSE, <<>>, NoHeaders),
                    Response(200, TRUE, <<>>, NoHeaders)})

\* Lines 52-71: one pass of the retry loop.
ApiCallAttempt ==
    /\ pc = "api_call"
    /\ attempt' = attempt + 1
    /\ \E o \in CallOutcomes :
        /\ outcomes' = Append(outcomes, o)
        /\ faults' = Spend(o)
        /\ wire' = IF call.url.resource = "packages"
                   THEN PageSent(call.url.a, o)
                   ELSE [wire EXCEPT !.requests = @ + 1,
                                     !.failures = IF IsFault(o) THEN @ + 1 ELSE @]
        /\ IF IsSuccess(o)
           THEN /\ resp' = o
                /\ pc' = call.ret
                /\ result' = result
           ELSE IF IsTransient(o) /\ ~AttemptsExhausted(attempt')
           THEN /\ resp' = resp
                /\ pc' = pc
                /\ result' = result
           ELSE /\ resp' = resp
                /\ Finish(Abort(1))
    /\ UNCHANGED <<op, args, server, call, page, metadata, total, fetched,
                   tokens, idx>>

(***************************************************************************)
(* packagecloud.py: get_all_packages                                       *)
(* page is its offset, metadata its packages.                              *)
(***************************************************************************)
PackagesUrl(p) == Url("packages", p, 0)

\* Lines 319-328: the locals, and the first pass of the loop (0 < 1).
GetAllPackagesStart ==
    /\ pc = "start"
    /\ op = "get_all_packages"
    /\ metadata' = <<>>
    /\ total' = 1
    /\ fetched' = 0
    /\ page' = 1
    /\ EnterApiCall("get", PackagesUrl(1), "got_page")
    /\ UNCHANGED <<op, args, server, faults, tokens, idx, result>>

\* Lines 329-337 for the response received, then the loop test of line 324.
GetAllPackagesPage ==
    /\ pc = "got_page"
    /\ page < MaxOffset
    /\ IF ~resp.json
       THEN \* resp.json() raises ValueError: abort
            /\ Finish(Abort(1))
            /\ UNCHANGED <<metadata, total, fetched, page, call, attempt, resp,
                           outcomes, wire>>
       ELSE IF resp.headers.Total = None
               \/ (IntOk(resp.headers.Total) /\ resp.headers.PerPage = None)
       THEN \* resp.headers[...] raises KeyError, which nothing catches
            /\ Finish(Raised("KeyError"))
            /\ metadata' = metadata \o resp.body
            /\ UNCHANGED <<total, fetched, page, call, attempt, resp, outcomes,
                           wire>>
       ELSE IF ~IntOk(resp.headers.Total) \/ ~IntOk(resp.headers.PerPage)
       THEN \* int() raises ValueError: abort
            /\ Finish(Abort(1))
            /\ metadata' = metadata \o resp.body
            /\ UNCHANGED <<total, fetched, page, call, attempt, resp, outcomes,
                           wire>>
       ELSE /\ metadata' = metadata \o resp.body
            /\ total' = IntValue(resp.headers.Total)
            /\ fetched' = fetched + IntValue(resp.headers.PerPage)
            /\ page' = page + 1
            /\ IF fetched' < total'
               THEN /\ EnterApiCall("get", PackagesUrl(page'), "got_page")
                    /\ result' = result
               ELSE /\ Finish(Returned(metadata'))
                    /\ UNCHANGED <<call, attempt, resp, outcomes, wire>>
    /\ UNCHANGED <<op, args, server, faults, tokens, idx>>

(***************************************************************************)
(* list_packages.py: ListPackagesAction.run                                *)
(***************************************************************************)
MAX_PAGE_NUMBER == 100

\* Lines 88-93.
RunStart ==
    /\ pc = "start"
    /\ op = "run"
    /\ page' = 1
    /\ metadata' = <<>>
    /\ pc' = "fetch"
    /\ UNCHANGED <<op, args, server, faults, call, attempt, resp, outcomes,
                   total, fetched, tokens, idx, wire, result>>

\* int(response.headers.get("Total", 0))
TotalOrZero(headers) == IF headers.Total = None THEN 0 ELSE IntValue(headers.Total)

\* Line 95 with <= for <.
MorePagesInclusive(p) == p <= MAX_PAGE_NUMBER

\* The loop test of line 95.
MorePages(p) == p < MAX_PAGE_NUMBER

\* Lines 95-107: one pass of the loop; requests.get is called directly, so
\* whatever it raises leaves run.
RunRequestPage ==
    /\ pc = "fetch"
    /\ \E o \in GoodPages(page) \cup Faulty :
        /\ resp' = o
        /\ outcomes' = <<o>>
        /\ faults' = Spend(o)
        /\ wire' = PageSent(page, o)
        /\ IF o.kind # "response"
           THEN /\ Finish(Raised(o.kind))
                /\ UNCHANGED <<page, metadata>>
           ELSE IF o.status # 200
           THEN /\ Finish(Raised("Exception"))
                /\ UNCHANGED <<page, metadata>>
           ELSE IF ~o.json
           THEN /\ Finish(Raised("JSONDecodeError"))
                /\ UNCHANGED <<page, metadata>>
           ELSE IF o.headers.Total # None /\ ~IntOk(o.headers.Total)
           THEN /\ Finish(Raised("ValueError"))
                /\ metadata' = metadata \o o.body
                /\ page' = page
           ELSE /\ metadata' = metadata \o o.body
                /\ result' = result
                /\ IF Len(metadata') >= TotalOrZero(o.headers)
                   THEN page' = page /\ pc' = "filter"
                   ELSE /\ page' = page + 1
                        /\ pc' = IF MorePages(page') THEN "fetch" ELSE "filter"
    /\ UNCHANGED <<op, args, server, call, attempt, total, fetched, tokens, idx>>

\* Lines 113-120 with the version compared for equality.
AppendedVersionEqual(pkg_info, a) ==
    IF Truthy(a.package) /\ pkg_info.name # a.package THEN FALSE
    ELSE IF Truthy(a.distro_version) /\ pkg_info.distro_version # a.distro_version
    THEN FALSE
    ELSE IF Truthy(a.version) /\ pkg_info.version # a.version THEN FALSE
    ELSE IF Truthy(a.release) /\ pkg_info.release # a.release THEN FALSE
    ELSE TRUE

\* Lines 113-120: whether the loop body reaches packages.append(pkg_info).
Appended(pkg_info, a) ==
    IF Truthy(a.package) /\ pkg_info.name # a.package THEN FALSE
    ELSE IF Truthy(a.distro_version) /\ pkg_info.distro_version # a.distro_version
    THEN FALSE
    ELSE IF Truthy(a.version) /\ ~StartsWith(pkg_info.version, a.version) THEN FALSE
    ELSE IF Truthy(a.release) /\ pkg_info.release # a.release THEN FALSE
    ELSE TRUE

\* Lines 111-121: the loop over metadata, appending in order.
FilterLoop(records, a) == SelectSeq(records, LAMBDA pkg_info : Appended(pkg_info, a))

\* Line 127: the key of a record.
SortKey(pkgmeta) == meta_version_to_integer(pkgmeta.version, pkgmeta.release)

SortKeyDefined(pkgmeta) == MetaVersionDefined(pkgmeta.version, pkgmeta.release)

\* Line 124 with every value but "ascending" taken as descending.
ReverseUnlessAscending(sort_type) == sort_type # "ascending"

\* Line 124.
Reverse(sort_type) == sort_type = "descending"

\* Where sorted() puts x among the records already placed: behind every
\* record that does not have to come after it.
InsertAt(placed, x, reverse) ==
    Cardinality({j \in 1..Len(placed) :
        IF reverse THEN KeyLeq(SortKey(x), SortKey(placed[j]))
        ELSE KeyLeq(SortKey(placed[j]), SortKey(x))})

RECURSIVE SortedLoop(_, _, _, _)
SortedLoop(records, i, reverse, placed) ==
    IF i > Len(records) THEN placed
    ELSE LET at == InsertAt(placed, records[i], reverse)
         IN  SortedLoop(records, i + 1, reverse,
                        SubSeq(placed, 1, at) \o <<records[i]>>
                        \o SubSeq(placed, at + 1, Len(placed)))

\* sorted(packages, key=..., reverse=reverse): ascending, or with reverse
\* descending, and stable in both directions.
Sorted(packages, reverse) == SortedLoop(packages, 1, reverse, <<>>)

\* Lines 110-131.
RunFinish ==
    /\ pc = "filter"
    /\ LET packages == FilterLoop(metadata, args)
       IN  IF ~args.sort_packages THEN Finish(Returned(packages))
           ELSE IF \E i \in 1..Len(packages) : ~SortKeyDefined(packages[i])
           THEN Finish(Raised("ValueError"))
           ELSE Finish(Returned(Sorted(packages, Reverse(args.sort_type))))
    /\ UNCHANGED <<op, args, server, faults, call, attempt, resp, outcomes,
                   page, metadata, total, fetched, tokens, idx, wire>>

(***************************************************************************)
(* The paginated fetches against consistent and malformed servers          *)
(***************************************************************************)
NoCriteria(per_page) ==
    [package |-> None, distro_version |-> None, version |-> None,
     release |-> None, per_page |-> per_page, sort_packages |-> FALSE,
     sort_type |-> "descending"]

ConsistentServers ==
    {PackageServer("consistent", PkgRecords(n), q) :
        n \in 0..MaxRecords, q \in 1..MaxPerPage}
    \cup {PackageServer("consistent", PkgRecords(250), 100),
          PackageServer("consistent", PkgRecords(99), 1),
          PackageServer("consistent", PkgRecords(100), 1)}

MalformedServers ==
    {PackageServer("malformed", PkgRecords(n), 1) : n \in {0, MaxRecords}}

InitFetch ==
    \E o \in {"run", "get_all_packages"},
       srv \in ConsistentServers \cup MalformedServers :
        Invoke(o, NoCriteria(srv.perPage), srv, MaxFaults)

NextFetch ==
    \/ RunStart
    \/ RunRequestPage
    \/ RunFinish
    \/ GetAllPackagesStart
    \/ ApiCallAttempt
    \/ GetAllPackagesPage

SpecFetch == InitFetch /\ [][NextFetch]_vars

(***************************************************************************)
(* Listing, filtering and sorting a small repository                       *)
(***************************************************************************)
Pkg(name, distro_version, version, release) ==
    [name |-> name, distro_version |-> distro_version, version |-> version,
     release |-> release]

Pkg_2_0 == Pkg(<<"a">>, <<"x">>, <<"2", ".", "0">>, <<"1">>)

Pkg_2_1 == Pkg(<<"a">>, <<"x">>, <<"2", ".", "1">>, <<"1">>)

Pkg_3_0 == Pkg(<<"a">>, <<"x">>, <<"3", ".", "0">>, <<"1">>)

Pkg_a_1 == Pkg(<<"a">>, <<"x">>, <<"1", ".", "0", ".", "0">>, <<"1">>)

Pkg_a_2 == Pkg(<<"a">>, <<"y">>, <<"1", ".", "0", ".", "0">>, <<"2">>)

Pkg_b_1 == Pkg(<<"b">>, <<"x">>, <<"1", ".", "0", ".", "0">>, <<"1">>)

Pkg_b_10 == Pkg(<<"b">>, <<"y">>, <<"1", ".", "0", ".", "0">>, <<"1", "0">>)

Pkg_dev == Pkg(<<"b">>, <<"y">>, <<"0", ".", "9", "d", "e", "v">>, <<"8">>)

Catalogue ==
    {Pkg_2_0, Pkg_2_1, Pkg_3_0, Pkg_a_1, Pkg_a_2, Pkg_b_1, Pkg_b_10, Pkg_dev}

RECURSIVE Listings(_)
\* The listings of exactly n records.
Listings(n) ==
    IF n = 0 THEN {<<>>}
    ELSE {Append(l, r) : l \in Listings(n - 1), r \in Catalogue}

Repositories == UNION {Listings(n) : n \in 0..MaxPkgs}

Criteria(package, distro_version, version, release) ==
    [package |-> package, distro_version |-> distro_version,
     version |-> version, release |-> release]

FilterArguments ==
    {Criteria(None, None, None, None),
     Criteria(<<>>, <<>>, <<>>, <<>>),
     Criteria(<<"a">>, None, None, None),
     Criteria(None, <<"x">>, None, None),
     Criteria(None, None, <<"2", ".">>, None),
     Criteria(None, None, None, <<"1">>),
     Criteria(<<"b">>, <<>>, <<"1", ".", "0", ".", "0">>, None),
     Criteria(<<"a">>, <<"x">>, <<"1">>, <<"1">>)}

SortArguments ==
    {[sort_packages |-> FALSE, sort_type |-> "descending"],
     [sort_packages |-> TRUE, sort_type |-> "descending"],
     [sort_packages |-> TRUE, sort_type |-> "ascending"],
     [sort_packages |-> TRUE, sort_type |-> "newest"]}

InitList ==
    \E pkgs \in Repositories, c \in FilterArguments, o \in SortArguments :
        Invoke("run",
               [package |-> c.package, distro_version |-> c.distro_version,
                version |-> c.version, release |-> c.release, per_page |-> 2,
                sort_packages |-> o.sort_packages, sort_type |-> o.sort_type],
               PackageServer("consistent", pkgs, 2), 0)

NextList == RunStart \/ RunRequestPage \/ RunFinish

SpecList == InitList /\ [][NextList]_vars

(***************************************************************************)
(* packagecloud.py: the token operations                                   *)
(* A token of the listing at position i has id i, its paths.self leads to  *)
(* that id, and its value is a secret text made from the id.               *)
(***************************************************************************)
Token(name, id) == [name |-> name, value |-> <<"s">> \o ToDecimal(id), id |-> id]

NoToken == [name |-> "<None>", value |-> None, id |-> 0]

\* for token in tokens: if token['name'] == name, resumed at position from:
\* the position of the next token of that name, 0 when the loop runs out.
NextNamed(listing, from, name) ==
    IF \E i \in from..Len(listing) : listing[i].name = name
    THEN CHOOSE i \in from..Len(listing) :
            /\ listing[i].name = name
            /\ \A j \in from..(i - 1) : listing[j].name # name
    ELSE 0

MasterTokensUrl == Url("master_tokens", 0, 0)

\* Lines 127-130 (get_master_token, also as called by destroy_read_token at
\* lines 276-280).
GetMasterTokenStart ==
    /\ pc = "start"
    /\ op \in {"get_master_token", "destroy_read_token"}
    /\ EnterApiCall("get", MasterTokensUrl, "gmt_listed")
    /\ UNCHANGED <<op, args, server, faults, page, metadata, total, fetched,
                   tokens, idx, result>>

\* Lines 131-139, and for destroy_read_token lines 281-285 up to the request
\* for the read tokens of the master token found.
GetMasterTokenListed ==
    /\ pc = "gmt_listed"
    /\ IF ~resp.json
       THEN /\ Finish(Abort(1))
            /\ UNCHANGED <<tokens, call, attempt, resp, outcomes, wire>>
       ELSE LET m == NextNamed(resp.body, 1, args.name)
            IN  /\ tokens' = resp.body
                /\ IF op = "get_master_token"
                   THEN /\ Finish(Returned(IF m = 0 THEN NoToken ELSE resp.body[m]))
                        /\ UNCHANGED <<call, attempt, resp, outcomes, wire>>
                   ELSE IF m = 0
                   THEN /\ Finish(Abort(1))
                        /\ UNCHANGED <<call, attempt, resp, outcomes, wire>>
                   ELSE /\ EnterApiCall("get", Url("read_tokens", resp.body[m].id, 0),
                                        "drt_listed")
                        /\ result' = result
    /\ UNCHANGED <<op, args, server, faults, page, metadata, total, fetched, idx>>

\* Lines 287-293 resumed at position from: the DELETE for the next read
\* token of the name, or the end of the loop, where the function returns None.
DestroyReadTokenScan(listing, from, master) ==
    LET m == NextNamed(listing, from, args.read_name)
    IN  IF m = 0
        THEN /\ Finish(Returned(None))
             /\ idx' = idx
             /\ UNCHANGED <<call, attempt, resp, outcomes, wire>>
        ELSE /\ EnterApiCall("delete", Url("read_token", master, listing[m].id),
                             "drt_deleted")
             /\ idx' = m
             /\ result' = result

\* Lines 213-218 of get_read_tokens and the loop of destroy_read_token up
\* to its first DELETE.
DestroyReadTokenListed ==
    /\ pc = "drt_listed"
    /\ IF ~resp.json
       THEN /\ Finish(Abort(1))
            /\ UNCHANGED <<tokens, idx, call, attempt, resp, outcomes, wire>>
       ELSE /\ tokens' = resp.body
            /\ DestroyReadTokenScan(resp.body, 1, call.url.a)
    /\ UNCHANGED <<op, args, server, faults, page, metadata, total, fetched>>

\* Lines 297-305: the answer to a DELETE, then the loop goes on.
DestroyReadTokenDeleted ==
    /\ pc = "drt_deleted"
    /\ IF resp.status = 204
       THEN /\ Finish(Returned(tokens[idx].value))
            /\ UNCHANGED <<idx, call, attempt, resp, outcomes, wire>>
       ELSE DestroyReadTokenScan(tokens, idx + 1, call.url.a)
    /\ UNCHANGED <<op, args, server, faults, page, metadata, total, fetched,
                   tokens>>

\* Line 173: get_master_tokens, lines 85-88.
DestroyMasterTokenStart ==
    /\ pc = "start"
    /\ op = "destroy_master_token"
    /\ EnterApiCall("get", MasterTokensUrl, "dmt_listed")
    /\ UNCHANGED <<op, args, server, faults, page, metadata, total, fetched,
                   tokens, idx, result>>

\* Lines 175-181 resumed at position from: the DELETE for the next token
\* of the name, or the end of the loop and return True.
DestroyMasterTokenScan(listing, from) ==
    LET m == NextNamed(listing, from, args.name)
    IN  IF m = 0
        THEN /\ Finish(Returned(<<"True">>))
             /\ idx' = idx
             /\ UNCHANGED <<call, attempt, resp, outcomes, wire>>
        ELSE /\ EnterApiCall("delete", Url("token", listing[m].id, 0), "dmt_deleted")
             /\ idx' = m
             /\ result' = result

\* Lines 89-94 of get_master_tokens and the loop of destroy_master_token up
\* to its first DELETE.
DestroyMasterTokenListed ==
    /\ pc = "dmt_listed"
    /\ IF ~resp.json
       THEN /\ Finish(Abort(1))
            /\ UNCHANGED <<tokens, idx, call, attempt, resp, outcomes, wire>>
       ELSE /\ tokens' = resp.body
            /\ DestroyMasterTokenScan(resp.body, 1)
    /\ UNCHANGED <<op, args, server, faults, page, metadata, total, fetched>>

\* Lines 185-190: the answer to a DELETE.  On 204 line 187 applies % to a
\* format text without a conversion, which raises TypeError; otherwise the
\* loop goes on.
DestroyMasterTokenDeleted ==
    /\ pc = "dmt_deleted"
    /\ IF resp.status = 204
       THEN /\ Finish(Raised("TypeError"))
            /\ UNCHANGED <<idx, call, attempt, resp, outcomes, wire>>
       ELSE DestroyMasterTokenScan(tokens, idx + 1)
    /\ UNCHANGED <<op, args, server, faults, page, metadata, total, fetched,
                   tokens>>

(***************************************************************************)
(* Token operations against small listings                                 *)
(***************************************************************************)
TokenNames == {"a", "b"}

RECURSIVE TokenListings(_)
\* The listings of exactly n tokens.
TokenListings(n) ==
    IF n = 0 THEN {<<>>}
    ELSE {Append(l, Token(name, n)) : l \in TokenListings(n - 1), name \in TokenNames}

AllTokenListings == UNION {TokenListings(n) : n \in 0..MaxTokens}

TokenServer(masters, reads) ==
    [mode |-> "tokens", pkgs |-> <<>>, perPage |-> 1, masters |-> masters,
     reads |-> reads]

InitTokens ==
    \/ \E o \in {"get_master_token", "destroy_master_token"},
          masters \in AllTokenListings, n \in TokenNames :
           Invoke(o, [name |-> n, read_name |-> n], TokenServer(masters, <<>>),
                  MaxFaults)
    \/ \E masters \in AllTokenListings, reads \in AllTokenListings,
          n \in TokenNames :
           Invoke("destroy_read_token", [name |-> "a", read_name |-> n],
                  TokenServer(masters, reads), MaxFaults)

NextTokens ==
    \/ GetMasterTokenStart
    \/ DestroyMasterTokenStart
    \/ ApiCallAttempt
    \/ GetMasterTokenListed
    \/ DestroyReadTokenListed
    \/ DestroyReadTokenDeleted
    \/ DestroyMasterTokenListed
    \/ DestroyMasterTokenDeleted

SpecTokens == InitTokens /\ [][NextTokens]_vars

(***************************************************************************)
(* Claims about format_semver and meta_version_to_integer (SpecSemver)     *)
(***************************************************************************)
Text_1_2_3_dev == <<"1", ".", "2", ".", "3", "d", "e", "v">>

Text_beta == <<"b", "e", "t", "a">>

AllNumeric(parts) == \A i \in 1..Len(parts) : NumericIdentifier(parts[i])

\* MAJOR.MINOR or MAJOR.MINOR.PATCH
TwoOrThreeNumbers(s) ==
    Len(SplitDots(s)) \in {2, 3} /\ AllNumeric(SplitDots(s))

\* MAJOR.MINOR or MAJOR.MINOR.PATCH, with or without "dev" right after it
PlainOrDevVersion(v) ==
    \/ TwoOrThreeNumbers(v)
    \/ /\ Len(v) >= 3
       /\ Slice(v, Len(v) - 3, Len(v)) = DEV
       /\ TwoOrThreeNumbers(Slice(v, 0, Len(v) - 3))

\* MAJOR.MINOR.PATCH[-beta]+RELEASE
NormalShape(out, release) ==
    LET plus == FirstPos(out, "+")
        head == Slice(out, 0, plus - 1)
        dash == FirstPos(head, "-")
        core == IF dash = 0 THEN head ELSE Slice(head, 0, dash - 1)
    IN  /\ plus # 0
        /\ Slice(out, plus, Len(out)) = release
        /\ dash # 0 => Slice(head, dash, Len(head)) = Text_beta
        /\ Len(SplitDots(core)) = 3
        /\ AllNumeric(SplitDots(core))

FormatSemverDone == op = "format_semver" /\ pc = "done"

\* C5: format_semver("1.2.3dev", "5") is "1.2.3-beta+5", and for every
\* version MAJOR.MINOR or MAJOR.MINOR.PATCH, with or without "dev" after
\* it, and a numeric release, the output has the shape
\* MAJOR.MINOR.PATCH[-beta]+RELEASE.
C5_NormalizerShape ==
    FormatSemverDone =>
        /\ (args.version = Text_1_2_3_dev /\ args.release = <<"5">>) =>
              result = Returned(<<"1", ".", "2", ".", "3", "-">> \o Text_beta
                                \o <<"+", "5">>)
        /\ (PlainOrDevVersion(args.version) /\ NumericIdentifier(args.release)) =>
              NormalShape(result.value, args.release)

\* "dev" occurs and the character right before its first occurrence is ".".
PeriodBeforeDev(v) ==
    /\ Contains(v, DEV)
    /\ Index(v, DEV) >= 1
    /\ v[Index(v, DEV)] = "."

\* C6: without "dev" format_semver returns version "+" release; when "dev"
\* is not immediately preceded by a period it returns the text before "dev"
\* followed by ".0-beta+" and the release.
C6_FormatSemver ==
    FormatSemverDone =>
        /\ ~Contains(args.version, DEV) =>
              result = Returned(args.version \o <<"+">> \o args.release)
        /\ (Contains(args.version, DEV) /\ ~PeriodBeforeDev(args.version)) =>
              result = Returned(Slice(args.version, 0, Index(args.version, DEV))
                                \o <<".", "0", "-">> \o Text_beta \o <<"+">>
                                \o args.release)

RECURSIVE BitOr(_, _)
\* a | b on natural numbers
BitOr(a, b) ==
    IF a = 0 THEN b
    ELSE IF b = 0 THEN a
    ELSE (IF a % 2 = 1 \/ b % 2 = 1 THEN 1 ELSE 0) + 2 * BitOr(a \div 2, b \div 2)

\* (major << 32) | (minor << 24) | (patch << 16) | release, in limbs, for
\* components within their fields.
OrPacked(major, minor, patch, release) ==
    <<major, BitOr(minor * 256, patch), release>>

InFields(major, minor, patch, release) ==
    major <= 255 /\ minor <= 255 /\ patch <= 255 /\ release <= 65535

\* (a1, a2, a3, a4) < (b1, b2, b3, b4) lexicographically
LexLess(a, b) ==
    \E i \in 1..4 : a[i] < b[i] /\ \A j \in 1..(i - 1) : a[j] = b[j]

KeyInput(major, minor, patch, release) ==
    [version |-> DottedVersion(major, minor, patch), release |-> ToDecimal(release)]

\* C7: for components within their field widths the key is
\* (major << 32) | (minor << 24) | (patch << 16) | release, and two keys
\* compare as (major, minor, patch, release) compare lexicographically; a
\* larger release gives a larger key, and a patch larger by one gives a
\* larger key whatever the two releases are.
C7_KeyOrder ==
    (op = "meta_version_to_integer" /\ pc = "done") =>
        \A a \in FieldSamples, b \in FieldSamples, c \in FieldSamples,
           r \in ReleaseSamples :
            (InFields(a, b, c, r) /\ args = KeyInput(a, b, c, r)) =>
                /\ result = Returned(OrPacked(a, b, c, r))
                /\ \A a2 \in FieldSamples, b2 \in FieldSamples,
                      c2 \in FieldSamples, r2 \in ReleaseSamples :
                       InFields(a2, b2, c2, r2) =>
                           LET other == meta_version_to_integer(
                                            DottedVersion(a2, b2, c2), ToDecimal(r2))
                           IN  /\ KeyLess(result.value, other)
                                    <=> LexLess(<<a, b, c, r>>, <<a2, b2, c2, r2>>)
                               /\ (a2 = a /\ b2 = b /\ c2 = c /\ r2 > r)
                                    => KeyLess(result.value, other)
                               /\ (a2 = a /\ b2 = b /\ c2 = c + 1)
                                    => KeyLess(result.value, other)

\* The key of 2.255.255 with release 65535 was computed: every field full.
C7_Witness ==
    /\ op = "meta_version_to_integer"
    /\ pc = "done"
    /\ args = KeyInput(2, 255, 255, 65535)
    /\ result = Returned(<<2, 65535, 65535>>)

(***************************************************************************)
(* Claims about the paginated fetches (SpecFetch)                          *)
(***************************************************************************)
\* C2: no fetch ever requests a page number beyond the safety bound of 100,
\* whatever Total and Per-Page the responses carry.
C2_PageBound == wire.lastPage <= 100

\* Requests a consistent server needs to hand out all its records.
PagesNeeded ==
    IF Len(server.pkgs) = 0 THEN 1
    ELSE (Len(server.pkgs) + server.perPage - 1) \div server.perPage

Undisturbed == server.mode = "consistent" /\ wire.failures = 0

\* C3 as stated: against a consistent server, with no request failing, the
\* pages requested are 1, 2, 3, ... with none skipped or repeated, the fetch
\* stops with the page on which the records reach Total, and it returns all
\* the records in order; Total=250 with Per-Page=100 takes 3 requests.
C3_AllRecords ==
    Undisturbed =>
        /\ wire.requests = wire.lastPage
        /\ wire.requests <= PagesNeeded
        /\ pc = "done" =>
              /\ result = Returned(server.pkgs)
              /\ wire.requests = PagesNeeded
              /\ (Len(server.pkgs) = 250 /\ server.perPage = 100) =>
                    wire.requests = 3 /\ Len(result.value) = 250

\* Pages run can request: 1 .. MAX_PAGE_NUMBER - 1.
FitsRun == Len(server.pkgs) <= 99 * server.perPage

\* C3 amended: as C3, except that run, when the records take more than 99
\* pages, stops after page 99 and returns the records of pages 1..99.
C3_AllRecordsWithinBound ==
    Undisturbed =>
        /\ wire.requests = wire.lastPage
        /\ wire.requests <= PagesNeeded
        /\ pc = "done" =>
              IF op = "run" /\ ~FitsRun
              THEN /\ result = Returned(SubSeq(server.pkgs, 1, 99 * server.perPage))
                   /\ wire.requests = 99
              ELSE /\ result = Returned(server.pkgs)
                   /\ wire.requests = PagesNeeded
                   /\ (Len(server.pkgs) = 250 /\ server.perPage = 100) =>
                         wire.requests = 3 /\ Len(result.value) = 250

\* run has fetched the 250 records of a server with Per-Page 100 in 3 requests.
C3_Witness ==
    /\ op = "run"
    /\ pc = "done"
    /\ Undisturbed
    /\ Len(server.pkgs) = 250
    /\ server.perPage = 100
    /\ wire.requests = 3
    /\ wire.lastPage = 3
    /\ result = Returned(server.pkgs)

\* C4: a fetch fails on a transient failure of a page request only once
\* that page has been requested 3 times; a single transient failure does not
\* end the fetch.
C4_PageRetried ==
    (/\ pc = "done"
     /\ result.kind \in {"raised", "aborted"}
     /\ outcomes # <<>>
     /\ IsTransient(outcomes[Len(outcomes)]))
        => Len(outcomes) = 3

(***************************************************************************)
(* Claims about filtering and sorting (SpecList)                           *)
(***************************************************************************)
\* A record meets every criterion that was supplied and is not empty.
Satisfies(r) ==
    /\ (args.package # None /\ args.package # <<>>) => r.name = args.package
    /\ (args.distro_version # None /\ args.distro_version # <<>>) =>
          r.distro_version = args.distro_version
    /\ (args.version # None /\ args.version # <<>>) =>
          /\ Len(r.version) >= Len(args.version)
          /\ SubSeq(r.version, 1, Len(args.version)) = args.version
    /\ (args.release # None /\ args.release # <<>>) => r.release = args.release

KeptPositions == {i \in 1..Len(metadata) : Satisfies(metadata[i])}

\* The position in metadata of the j-th record kept.
KeptAt(j) ==
    CHOOSE i \in KeptPositions : Cardinality({k \in KeptPositions : k < i}) = j - 1

\* The fetched records that satisfy the criteria, in fetch order.
Filtered == [j \in 1..Cardinality(KeptPositions) |-> metadata[KeptAt(j)]]

RunReturned == op = "run" /\ pc = "done" /\ result.kind = "returned"

\* C8: without sorting, run returns exactly the fetched records that meet
\* every supplied non-empty criterion, in fetch order and with duplicates;
\* the version prefix "2." over versions 2.0, 2.1, 3.0 keeps the first two.
C8_FilterExact ==
    (RunReturned /\ ~args.sort_packages) =>
        /\ Len(result.value) = Cardinality(KeptPositions)
        /\ \A j \in 1..Len(result.value) : result.value[j] = metadata[KeptAt(j)]
        /\ (/\ metadata = <<Pkg_2_0, Pkg_2_1, Pkg_3_0>>
            /\ args.version = <<"2", ".">>
            /\ args.package = None) => result.value = <<Pkg_2_0, Pkg_2_1>>

\* The prefix "2." was applied to versions 2.0, 2.1, 3.0 without sorting.
C8_Witness ==
    /\ RunReturned
    /\ ~args.sort_packages
    /\ metadata = <<Pkg_2_0, Pkg_2_1, Pkg_3_0>>
    /\ args.version = <<"2", ".">>
    /\ result.value = <<Pkg_2_0, Pkg_2_1>>

\* C9: with sorting, run returns a permutation of the filtered records in
\* key order, non-increasing for "descending" and non-decreasing for every
\* other sort_type, records of equal key keeping their relative order; of
\* two records with equal version and releases 1 and 2, descending puts
\* release 2 first and ascending release 1.
C9_SortedStable ==
    (RunReturned /\ args.sort_packages) =>
        /\ Len(result.value) = Len(Filtered)
        /\ \E f \in [1..Len(Filtered) -> 1..Len(Filtered)] :
              /\ \A i \in 1..Len(Filtered) : result.value[i] = Filtered[f[i]]
              /\ \A i \in 1..Len(Filtered) : \A j \in (i + 1)..Len(Filtered) :
                    /\ f[i] # f[j]
                    /\ IF args.sort_type = "descending"
                       THEN KeyLeq(SortKey(Filtered[f[j]]), SortKey(Filtered[f[i]]))
                       ELSE KeyLeq(SortKey(Filtered[f[i]]), SortKey(Filtered[f[j]]))
                    /\ SortKey(Filtered[f[i]]) = SortKey(Filtered[f[j]]) => f[i] < f[j]
        /\ (Len(Filtered) = 2 /\ Filtered[1].version = Filtered[2].version
            /\ {Filtered[1].release, Filtered[2].release} = {<<"1">>, <<"2">>}) =>
              result.value[1].release =
                  IF args.sort_type = "descending" THEN <<"2">> ELSE <<"1">>

\* A descending sort moved release 2 to the front and left the two records
\* of release 1 in their fetch order.
C9_Witness ==
    /\ RunReturned
    /\ args.sort_packages
    /\ args.sort_type = "descending"
    /\ metadata = <<Pkg_a_1, Pkg_b_1, Pkg_a_2>>
    /\ result.value = <<Pkg_a_2, Pkg_a_1, Pkg_b_1>>

(***************************************************************************)
(* Claims about api_call and the token operations (SpecTokens)             *)
(***************************************************************************)
\* An HTTP error status, a connection error or a timeout.
TransientFailure(o) ==
    \/ o.kind = "ConnectionError"
    \/ o.kind = "Timeout"
    \/ o.kind = "response" /\ o.status \in 400..599

Succeeded(o) == o.kind = "response" /\ o.status \in 200..399

\* C1: api_call makes at most 3 attempts; every attempt but the last met a
\* transient failure, and a call with fewer than 3 attempts goes on after
\* one; a call that ended either returns the response of its last attempt,
\* which succeeded, or has aborted with exit status 1, after a failure that
\* is not transient or after the third transient one.
C1_BoundedRetry ==
    /\ Len(outcomes) <= 3
    /\ attempt = Len(outcomes)
    /\ \A i \in 1..(Len(outcomes) - 1) : TransientFailure(outcomes[i])
    /\ pc = "api_call" =>
          /\ Len(outcomes) < 3
          /\ \A i \in 1..Len(outcomes) : TransientFailure(outcomes[i])
    /\ (pc # "api_call" /\ outcomes # <<>>) =>
          LET last == outcomes[Len(outcomes)]
          IN  IF Succeeded(last)
              THEN resp = last
              ELSE /\ pc = "done"
                   /\ result = Abort(1)
                   /\ TransientFailure(last) => Len(outcomes) = 3

\* Two transient failures, then the third attempt's response was returned.
C1_Witness ==
    /\ pc \notin {"start", "api_call", "done"}
    /\ Len(outcomes) = 3
    /\ TransientFailure(outcomes[1])
    /\ TransientFailure(outcomes[2])
    /\ Succeeded(outcomes[3])
    /\ resp = outcomes[3]

\* The tokens of the listing that carry the name.
Named(listing, name) == {i \in 1..Len(listing) : listing[i].name = name}

FirstNamed(listing, name) ==
    CHOOSE i \in Named(listing, name) : \A j \in Named(listing, name) : i <= j

\* C10: get_master_token returns the first token of the name in listing
\* order; one destroy call issues at most one DELETE, and that for the
\* first token of the name.
C10_FirstMatch ==
    /\ (op = "get_master_token" /\ pc = "done" /\ result.kind = "returned") =>
          result.value = IF Named(server.masters, args.name) = {} THEN NoToken
                         ELSE server.masters[FirstNamed(server.masters, args.name)]
    /\ op = "destroy_master_token" =>
          /\ Len(wire.deletes) <= 1
          /\ Len(wire.deletes) = 1 =>
                wire.deletes[1] =
                    Url("token", server.masters[FirstNamed(server.masters, args.name)].id, 0)
    /\ op = "destroy_read_token" =>
          /\ Len(wire.deletes) <= 1
          /\ Len(wire.deletes) = 1 =>
                wire.deletes[1] =
                    Url("read_token",
                        server.masters[FirstNamed(server.masters, args.name)].id,
                        server.reads[FirstNamed(server.reads, args.read_name)].id)

\* C11: when destroy_master_token found a token of the name and the DELETE
\* for it was answered 204, the call completes normally and returns True;
\* it does not end in an error.
C11_DestroySucceeds ==
    (/\ op = "destroy_master_token"
     /\ pc = "done"
     /\ call.method = "delete"
     /\ resp.kind = "response"
     /\ resp.status = 204)
        => result = Returned(<<"True">>)

====
